---- MODULE Spec2Model ----
(***************************************************************************)
(* Model of run_tests.py: the TestRunner orchestration (setup of Docker,   *)
(* image build, container start with readiness polling, the four suite     *)
(* runners, reporting) and main()'s try / except / finally exit paths.     *)
(* The Docker daemon, the health endpoint, the pytest subprocesses and     *)
(* the keyboard interrupt are the environment: their outcomes are chosen   *)
(* nondeterministically at the step that consults them.                    *)
(* The second part models test_analyzer.py (parse_junit_xml,               *)
(* load_all_results, the text and HTML reports, analyze) and               *)
(* quick_status.py (quick_check, show_failed_tests) over result files      *)
(* drawn from bounded sets.                                                *)
(***************************************************************************)
EXTENDS Integers, Naturals, Sequences, FiniteSets, TLC

\* ------------------------------------------------------------------ bounds
MaxElapsed == 1      \* a subprocess attempt lasts 1..MaxElapsed clock ticks
MaxReturnCode == 1   \* subprocess return codes range over 0..MaxReturnCode
MaxStarts == 2       \* calls of start_test_container on one runner (SpecRerun)

\* ------------------------------------------------------- program constants
Timeout == 30        \* run_tests.py:183  timeout = 30
PollAttempts == 30   \* run_tests.py:199  range(30)

Categories == {"unit", "integration", "api", "docker"}
Modes == {"all", "unit", "integration", "api", "docker"}

\* Values health_data.get("model_loaded") can yield: the JSON booleans, None
\* (null, or the field is absent), or a value of another type such as a string.
ModelLoadedValues == {"True", "False", "None", "nonempty_string"}
StatusValues == {"healthy", "unhealthy"}

\* Python truthiness, as in `... and health_data.get("model_loaded")`.
Truthy(v) == v \in {"True", "nonempty_string"}

\* What one requests.get(health_url) can produce: a response with a JSON object
\* as body, a RequestException, or a response whose body is no JSON object.
HealthResponses ==
  [kind : {"response"}, status_code : {200, 503},
   status : StatusValues, model_loaded : ModelLoadedValues]
  \cup
  [kind : {"request_exception", "bad_body"}, status_code : {0},
   status : {"unhealthy"}, model_loaded : {"None"}]

VARIABLES
  pc,              \* position in main / TestRunner
  mode,            \* args.mode
  cleanup,         \* self.cleanup
  docker_client,   \* self.docker_client is set (TRUE) or None (FALSE)
  test_container,  \* self.test_container: 0 is None, else the container id
  named,           \* daemon: id of the container named house-price-test, 0 if none
  cstatus,         \* daemon: status of that container
  imageExists,     \* daemon: image house-price-api:test exists
  nextId,          \* daemon: next fresh container id
  test_results,    \* self.test_results for the four categories
  overall,         \* self.test_results["overall"]
  success,         \* return value of run_all_tests / run_specific_tests
  startResult,     \* return value of start_test_container
  waited,          \* seconds slept in the wait-for-running loop
  attempt,         \* loop variable of the health polling loop
  ccReturn,        \* caller of cleanup_container: "start" or "cleanup"
  pendingExit,     \* exit status carried by the exception in flight, -1 if none
  exitCode,        \* exit status of the process, -1 while it runs
  report,          \* the Overall Status printed by generate_report, "" if none
  \* history variables
  calls,           \* how often each operation was invoked
  runLog,          \* categories whose subprocess was attempted, in order
  elapsed,         \* real length of the attempt of each category
  lastOutcome,     \* outcome of the attempt of each category
  returned,        \* return value of each category runner
  sawReady,        \* some health poll of the current start satisfied readiness
  seen200,         \* the 200 responses of the current start: "none" so far, all
                   \* "unready" (model_loaded false or status not healthy), or "other"
  ccFault,         \* a Docker call of the current cleanup_container raised
  tried,           \* the Docker teardown calls the current cleanup has made
  conflict,        \* containers.run was refused because the name is taken
  staleAtStart,    \* a container of that name existed when start was called
  setupFailed,     \* setup_docker, build_docker_image or start_test_container failed
  interrupted,     \* a KeyboardInterrupt was raised
  crashed,         \* an unexpected exception reached main
  \* test_analyzer.py / quick_status.py
  files,           \* the result files found in the results directory, in glob order
  apc,             \* position in analyze() / quick_status main(), "idle" if not run
  results,         \* the dict load_all_results returned, one entry per file
  parsed,          \* history: that dict as parse_junit_xml built it
  summary,         \* the text report analyze() prints
  savedText,       \* the text report save_reports writes
  savedHtml,       \* the HTML report save_reports writes
  quickExit,       \* return value of quick_check, -1 if it has not returned
  quick,           \* the totals quick_check computed and printed
  shown            \* the lines show_failed_tests prints

analyzerVars == <<files, apc, results, parsed, summary, savedText, savedHtml,
                  quickExit, quick, shown>>

runnerVars == <<pc, mode, cleanup, docker_client, test_container, named, cstatus,
          imageExists, nextId, test_results, overall, success, startResult,
          waited, attempt, ccReturn, pendingExit, exitCode, report, calls,
          runLog, elapsed, lastOutcome, returned, sawReady, seen200,
          ccFault, tried, conflict,
          staleAtStart, setupFailed, interrupted, crashed>>

vars == <<runnerVars, analyzerVars>>

\* Groups used in UNCHANGED.
daemonVars == <<named, cstatus, imageExists, nextId>>
resultVars == <<test_results, overall, runLog, elapsed, lastOutcome, returned>>
startVars == <<startResult, waited, attempt, sawReady, seen200, conflict,
               staleAtStart>>
exitVars == <<pendingExit, exitCode, report>>
flagVars == <<setupFailed, interrupted, crashed>>

Operations == {"setup_docker", "build_docker_image", "start_test_container",
               "cleanup_container", "cleanup_resources"}

\* Outcome of subprocess.run: it raised, or it returned with a return code.
Outcomes == [raised : {TRUE}, returncode : {0}]
            \cup [raised : {FALSE}, returncode : 0..MaxReturnCode]
NoOutcome == [raised |-> FALSE, returncode |-> 0]

\* TestRunner.__init__
InitResult == [status |-> "not_run", duration |-> 0, details |-> <<>>]

InitRunner ==
  /\ pc = "main"
  /\ mode \in Modes
  /\ cleanup \in BOOLEAN
  /\ docker_client = FALSE
  /\ test_container = 0
  /\ named \in {0, 1}                 \* an earlier run may have left a container
  /\ cstatus \in {"running", "exited"}
  /\ (named = 0 => cstatus = "exited")
  /\ imageExists \in BOOLEAN
  /\ nextId = 2
  /\ test_results = [c \in Categories |-> InitResult]
  /\ overall = [status |-> "not_run", started |-> FALSE, ended |-> FALSE]
  /\ success = TRUE
  /\ startResult = FALSE
  /\ waited = 0
  /\ attempt = 0
  /\ ccReturn = "none"
  /\ pendingExit = -1
  /\ exitCode = -1
  /\ report = ""
  /\ calls = [o \in Operations |-> 0]
  /\ runLog = <<>>
  /\ elapsed = [c \in Categories |-> 0]
  /\ lastOutcome = [c \in Categories |-> NoOutcome]
  /\ returned = [c \in Categories |-> FALSE]
  /\ sawReady = FALSE
  /\ seen200 = "none"
  /\ ccFault = FALSE
  /\ tried = {}
  /\ conflict = FALSE
  /\ staleAtStart = FALSE
  /\ setupFailed = FALSE
  /\ interrupted = FALSE
  /\ crashed = FALSE

\* quick_check has computed nothing.
NoQuick ==
  [ran |-> FALSE, total_tests |-> 0, total_failures |-> 0, total_errors |-> 0,
   passed |-> 0, rate |-> 0, rate_shown |-> FALSE]

\* A report that was not generated.
NoReport ==
  [state |-> "none", total_tests |-> 0, total_failures |-> 0, total_errors |-> 0,
   total_skipped |-> 0, total_passed |-> 0, shown_passed |-> 0,
   has_rate |-> FALSE, rate |-> 0, all_passing |-> FALSE,
   suites |-> <<>>, slowest |-> <<>>, details |-> <<>>]

\* The analyzer and quick_status are not run.
AnalyzerIdle ==
  /\ files = <<>>
  /\ apc = "idle"
  /\ results = <<>>
  /\ parsed = <<>>
  /\ summary = NoReport
  /\ savedText = NoReport
  /\ savedHtml = NoReport
  /\ quickExit = -1
  /\ quick = NoQuick
  /\ shown = <<>>

Init == InitRunner /\ AnalyzerIdle

Called(o) == calls' = [calls EXCEPT ![o] = @ + 1]

\* ------------------------------------------------------------- orchestration

\* Mutant of FirstStep: the unit flow sets Docker up like the others.
FirstStepAlwaysSetup(m) == "setup_docker"

\* main: `if args.mode == "all": run_all_tests() else: run_specific_tests(mode)`,
\* up to the first operation of the chosen flow. Only mode unit starts without
\* the container.
FirstStep(m) == IF m = "unit" THEN "run_unit" ELSE "setup_docker"

Dispatch ==
  /\ pc = "main"
  /\ overall' = [overall EXCEPT !.started = TRUE]
  /\ success' = TRUE
  /\ pc' = FirstStep(mode)
  /\ UNCHANGED <<analyzerVars, mode, cleanup, docker_client, test_container, daemonVars,
                 test_results, runLog, elapsed, lastOutcome, returned,
                 startVars, ccReturn, exitVars, calls, ccFault, tried, flagVars>>

\* Mutant of SetupFails: the failure is noted but the testing phase still runs.
SetupFailsButContinues ==
  /\ setupFailed' = TRUE
  /\ success' = FALSE
  /\ pc' = "run_unit"

\* `if not self.setup_docker(): return False` (and likewise for build and start):
\* the flow returns False to main at once; nothing else of the flow runs, and
\* test_results["overall"] is not written.
SetupFails ==
  /\ setupFailed' = TRUE
  /\ success' = FALSE
  /\ pc' = "report"

\* setup_docker: docker.from_env() may raise before the client is stored, ping()
\* or info() may raise after; every exception is caught and False is returned.
SetupDocker ==
  /\ pc = "setup_docker"
  /\ Called("setup_docker")
  /\ \E r \in {"ok", "from_env_raises", "ping_raises"} :
       /\ docker_client' = (r # "from_env_raises")
       /\ IF r = "ok"
            THEN /\ pc' = "build_image"
                 /\ UNCHANGED <<setupFailed, success>>
            ELSE SetupFails
  /\ UNCHANGED <<analyzerVars, mode, cleanup, test_container, daemonVars, resultVars,
                 startVars, ccReturn, exitVars, ccFault, tried, interrupted, crashed>>

\* build_docker_image: images.build either tags the image or raises; every
\* exception is caught and False is returned.
BuildDockerImage ==
  /\ pc = "build_image"
  /\ Called("build_docker_image")
  /\ \E ok \in BOOLEAN :
       IF ok
         THEN /\ imageExists' = TRUE
              /\ pc' = "start_container"
              /\ UNCHANGED <<setupFailed, success>>
         ELSE /\ SetupFails
              /\ UNCHANGED imageExists
  /\ UNCHANGED <<analyzerVars, mode, cleanup, docker_client, test_container, named, cstatus,
                 nextId, resultVars, startVars, ccReturn, exitVars, ccFault, tried,
                 interrupted, crashed>>

\* start_test_container, entry: its first statement calls cleanup_container.
StartTestContainer ==
  /\ pc = "start_container"
  /\ Called("start_test_container")
  /\ staleAtStart' = (named # 0)
  /\ conflict' = FALSE
  /\ sawReady' = FALSE
  /\ seen200' = "none"
  /\ ccReturn' = "start"
  /\ ccFault' = FALSE
  /\ tried' = {}
  /\ pc' = "cc_own"
  /\ UNCHANGED <<analyzerVars, mode, cleanup, docker_client, test_container, daemonVars,
                 resultVars, success, startResult, waited, attempt, exitVars,
                 flagVars>>

\* The Docker calls a try block of cleanup_container makes: remove() follows
\* stop() in the same block and is not reached when stop() raised.
OwnCalls(r) ==
  IF r = "stop_raises" THEN {"own_stop"} ELSE {"own_stop", "own_remove"}
NamedCalls(r) ==
  IF r = "stop_raises" THEN {"named_get", "named_stop"}
  ELSE {"named_get", "named_stop", "named_remove"}

\* cleanup_container, first try block: stop and remove the container this
\* runner holds a handle of. stop() raises when the container is gone; any
\* Docker call may raise; the exception is logged and swallowed.
CleanupOwn ==
  /\ pc = "cc_own"
  /\ calls' = [calls EXCEPT !["cleanup_container"] = @ + 1]
  /\ IF test_container = 0
       THEN UNCHANGED <<test_container, named, cstatus, ccFault, tried>>
       ELSE \E r \in {"ok", "stop_raises", "remove_raises"} :
              /\ (test_container # named => r = "stop_raises")
              /\ test_container' = IF r = "ok" THEN 0 ELSE test_container
              /\ named' = IF r = "ok" THEN 0 ELSE named
              /\ cstatus' = IF r = "stop_raises" THEN cstatus ELSE "exited"
              /\ ccFault' = (ccFault \/ r # "ok")
              /\ tried' = tried \cup OwnCalls(r)
  /\ pc' = "cc_named"
  /\ UNCHANGED <<analyzerVars, mode, cleanup, docker_client, imageExists, nextId, resultVars,
                 success, startVars, ccReturn, exitVars, flagVars>>

\* Where cleanup_container returns to.
AfterCleanupContainer(caller) ==
  IF caller = "start" THEN "run_container" ELSE "remove_image"

\* Mutant of CleanupNamed: the container of that name is not looked up.
CleanupNamedSkipped ==
  /\ pc = "cc_named"
  /\ pc' = IF ccReturn = "start" THEN "run_container" ELSE "remove_image"
  /\ UNCHANGED <<analyzerVars, mode, cleanup, docker_client, test_container, daemonVars,
                 resultVars, success, startVars, ccReturn, exitVars, calls,
                 ccFault, tried, flagVars>>

\* cleanup_container, second try block: look the container up by its fixed name,
\* stop it and remove it. NotFound is passed over; with no client
\* (self.docker_client is None) the attribute access raises; every other
\* exception is logged and swallowed.
CleanupNamed ==
  /\ pc = "cc_named"
  /\ IF ~docker_client
       THEN /\ ccFault' = TRUE
            /\ tried' = tried \cup {"named_get"}
            /\ UNCHANGED <<named, cstatus>>
       ELSE IF named = 0
         THEN /\ tried' = tried \cup {"named_get"}
              /\ UNCHANGED <<named, cstatus, ccFault>>
         ELSE \E r \in {"ok", "stop_raises", "remove_raises"} :
                /\ named' = IF r = "ok" THEN 0 ELSE named
                /\ cstatus' = IF r = "stop_raises" THEN cstatus ELSE "exited"
                /\ ccFault' = (ccFault \/ r # "ok")
                /\ tried' = tried \cup NamedCalls(r)
  /\ pc' = AfterCleanupContainer(ccReturn)
  /\ UNCHANGED <<analyzerVars, mode, cleanup, docker_client, test_container, imageExists,
                 nextId, resultVars, success, startVars, ccReturn, exitVars,
                 calls, flagVars>>

\* start_test_container returns r (an exception inside it is caught and turned
\* into False).
StartReturns(r) ==
  /\ startResult' = r
  /\ waited' = 0
  /\ attempt' = 0
  /\ pc' = "after_start"

\* containers.run(image, name=container_name, detach=True, ...): the daemon
\* refuses a name that is taken (409 Conflict), and may fail otherwise.
RunContainer ==
  /\ pc = "run_container"
  /\ IF named # 0
       THEN /\ conflict' = TRUE
            /\ StartReturns(FALSE)
            /\ UNCHANGED <<test_container, daemonVars>>
       ELSE \E ok \in BOOLEAN :
              IF ok
                THEN /\ named' = nextId
                     /\ nextId' = nextId + 1
                     /\ cstatus' = "created"
                     /\ test_container' = nextId
                     /\ pc' = "wait_running"
                     /\ waited' = 0
                     /\ UNCHANGED <<imageExists, conflict, startResult, attempt>>
                ELSE /\ StartReturns(FALSE)
                     /\ UNCHANGED <<test_container, daemonVars, conflict>>
  /\ UNCHANGED <<analyzerVars, mode, cleanup, docker_client, resultVars, success, sawReady,
                 seen200, staleAtStart, ccReturn, exitVars, calls, ccFault, tried,
                 flagVars>>

\* Mutant of ObservedRunning: a container that was created counts as started.
ObservedCreated(s) == s \in {"created", "running"}

\* `if self.test_container.status == "running": break`
ObservedRunning(s) == s = "running"

\* `while time.time() - start_time < timeout`, one second per round.
WaitBudgetLeft(w) == w < Timeout

\* Wait for the container to be running: `while time.time() - start_time <
\* timeout`, each round reloads the handle, leaves the loop when the status is
\* running and sleeps one second otherwise; the loop's else branch returns
\* False. reload() may raise, which the outer except turns into False.
WaitRunning ==
  /\ pc = "wait_running"
  /\ IF WaitBudgetLeft(waited)
       THEN \E s \in {"created", "running", "exited", "raises"} :
              CASE s = "raises" ->
                     /\ StartReturns(FALSE)
                     /\ UNCHANGED cstatus
                [] ObservedRunning(s) ->
                     /\ cstatus' = s
                     /\ pc' = "health_poll"
                     /\ attempt' = 0
                     /\ UNCHANGED <<waited, startResult>>
                [] OTHER ->
                     /\ cstatus' = s
                     /\ waited' = waited + 1
                     /\ UNCHANGED <<pc, attempt, startResult>>
       ELSE /\ StartReturns(FALSE)
            /\ UNCHANGED cstatus
  /\ UNCHANGED <<analyzerVars, mode, cleanup, docker_client, test_container, named,
                 imageExists, nextId, resultVars, success, sawReady,
                 seen200, conflict, staleAtStart, ccReturn, exitVars, calls,
                 ccFault, tried, flagVars>>

\* Mutant of IsReady: model_loaded is not looked at.
IsReadyIgnoringModel(resp) ==
  /\ resp.kind = "response"
  /\ resp.status_code = 200
  /\ resp.status = "healthy"

\* `response.status_code == 200 and health_data.get("status") == "healthy" and
\* health_data.get("model_loaded")`
IsReady(resp) ==
  /\ resp.kind = "response"
  /\ resp.status_code = 200
  /\ resp.status = "healthy"
  /\ Truthy(resp.model_loaded)

\* A 200 response whose body says model_loaded false, or a status other than
\* healthy.
IsUnready200(resp) ==
  /\ resp.kind = "response"
  /\ resp.status_code = 200
  /\ (resp.model_loaded = "False" \/ resp.status # "healthy")

\* History of the 200 responses received.
Seen200After(h, resp) ==
  IF resp.kind = "response" /\ resp.status_code = 200
    THEN IF IsUnready200(resp) /\ h # "other" THEN "unready" ELSE "other"
    ELSE h

\* Mutant of PollBudgetLeft: one more request than the budget.
PollBudgetOneMore(a) == a <= PollAttempts

\* `for attempt in range(30)`
PollBudgetLeft(a) == a < PollAttempts

\* One round of `for attempt in range(30)`: a request; ready ends the wait with
\* True; a RequestException is passed over; a body that is no JSON object raises
\* inside the try, which is either a RequestException (passed over) or reaches
\* the outer except (False). After the last round, not ready returns False.
HealthPoll ==
  /\ pc = "health_poll"
  /\ IF PollBudgetLeft(attempt)
       THEN \E resp \in HealthResponses :
            \E escapes \in (IF resp.kind = "bad_body" THEN BOOLEAN ELSE {FALSE}) :
              /\ sawReady' = (sawReady \/ IsReady(resp))
              /\ seen200' = Seen200After(seen200, resp)
              /\ IF IsReady(resp)
                   THEN StartReturns(TRUE)
                   ELSE IF escapes
                     THEN StartReturns(FALSE)
                     ELSE /\ attempt' = attempt + 1
                          /\ UNCHANGED <<pc, waited, startResult>>
       ELSE /\ StartReturns(FALSE)
            /\ UNCHANGED <<sawReady, seen200>>
  /\ UNCHANGED <<analyzerVars, mode, cleanup, docker_client, test_container, daemonVars,
                 resultVars, success, conflict, staleAtStart, ccReturn,
                 exitVars, calls, ccFault, tried, flagVars>>

\* Mutant of FirstSuite: every flow begins with the unit suite.
FirstSuiteAlwaysUnit(m) == "run_unit"

\* The suite a flow runs first once the container is ready.
FirstSuite(m) ==
  CASE m = "integration" -> "run_integration"
    [] m = "api" -> "run_api"
    [] m = "docker" -> "run_docker"
    [] OTHER -> "run_unit"

\* `if not self.start_test_container(): return False`, else the testing phase.
\* (The history of the start that has returned is dropped here.)
AfterStart ==
  /\ pc = "after_start"
  /\ IF startResult
       THEN /\ pc' = FirstSuite(mode)
            /\ UNCHANGED <<setupFailed, success>>
       ELSE SetupFails
  /\ sawReady' = FALSE
  /\ seen200' = "none"
  /\ staleAtStart' = FALSE
  /\ conflict' = FALSE
  /\ ccFault' = FALSE
  /\ tried' = {}
  /\ UNCHANGED <<analyzerVars, mode, cleanup, docker_client, test_container, daemonVars,
                 resultVars, startResult, waited, attempt, ccReturn, exitVars,
                 calls, interrupted, crashed>>

\* ---------------------------------------------------------- suite runners

SuitePc(c) ==
  CASE c = "unit" -> "run_unit"
    [] c = "integration" -> "run_integration"
    [] c = "api" -> "run_api"
    [] OTHER -> "run_docker"

\* Mutant of AfterSuite: run_all_tests runs the api suite before integration.
AfterSuiteApiFirst(m, c) ==
  IF m = "all"
    THEN CASE c = "unit" -> "run_api"
           [] c = "api" -> "run_integration"
           [] c = "integration" -> "run_docker"
           [] OTHER -> "finish"
    ELSE "finish"

\* What follows the runner of category c: run_all_tests runs unit, integration,
\* api, docker one after the other whatever each returns; run_specific_tests
\* runs one.
AfterSuite(m, c) ==
  IF m = "all"
    THEN CASE c = "unit" -> "run_integration"
           [] c = "integration" -> "run_api"
           [] c = "api" -> "run_docker"
           [] OTHER -> "finish"
    ELSE "finish"

\* Mutant of SuiteStatus: return code 1 counts as passed.
SuiteStatusUpToOne(returncode) == IF returncode <= 1 THEN "passed" ELSE "failed"

\* `if result.returncode == 0: status = "passed" else: status = "failed"`
SuiteStatus(returncode) == IF returncode = 0 THEN "passed" ELSE "failed"

\* The value a category runner returns.
SuiteReturn(o) == ~o.raised /\ o.returncode = 0

\* Mutant of RecordOutcome: a runner whose subprocess could not be started
\* records a status of its own.
RecordOutcomeUnknown(r, o, d) ==
  IF o.raised
    THEN [r EXCEPT !.status = "unknown"]
    ELSE [status |-> IF o.returncode = 0 THEN "passed" ELSE "failed",
          duration |-> d, details |-> <<o.returncode>>]

\* The writes of a category runner to its entry r of test_results: after
\* subprocess.run returned, duration, details and status; in the except branch,
\* status only.
RecordOutcome(r, o, d) ==
  IF o.raised
    THEN [r EXCEPT !.status = "error"]
    ELSE [status |-> SuiteStatus(o.returncode), duration |-> d,
          details |-> <<o.returncode>>]

\* run_all_tests: `if not self.run_x_tests(): success = False`;
\* run_specific_tests: `success = self.run_x_tests()`.
FoldSuccess(m, s, ret) == IF m = "all" THEN s /\ ret ELSE ret

\* A category runner: one synchronous subprocess.run, which takes d ticks and
\* returns a return code or raises.
RunSuite(c) ==
  /\ pc = SuitePc(c)
  /\ \E o \in Outcomes, d \in 1..MaxElapsed :
       /\ runLog' = Append(runLog, c)
       /\ elapsed' = [elapsed EXCEPT ![c] = d]
       /\ lastOutcome' = [lastOutcome EXCEPT ![c] = o]
       /\ test_results' = [test_results EXCEPT ![c] = RecordOutcome(@, o, d)]
       /\ returned' = [returned EXCEPT ![c] = SuiteReturn(o)]
       /\ success' = FoldSuccess(mode, success, SuiteReturn(o))
  /\ pc' = AfterSuite(mode, c)
  /\ UNCHANGED <<analyzerVars, mode, cleanup, docker_client, test_container, daemonVars,
                 overall, startVars, ccReturn, exitVars, calls, ccFault, tried,
                 flagVars>>

RunUnitTests == RunSuite("unit")
RunIntegrationTests == RunSuite("integration")
RunApiTests == RunSuite("api")
RunDockerTests == RunSuite("docker")

\* End of run_all_tests / run_specific_tests: the overall entry is written.
Finish ==
  /\ pc = "finish"
  /\ overall' = [overall EXCEPT !.ended = TRUE,
                                !.status = IF success THEN "passed" ELSE "failed"]
  /\ pc' = "report"
  /\ UNCHANGED <<analyzerVars, mode, cleanup, docker_client, test_container, daemonVars,
                 test_results, runLog, elapsed, lastOutcome, returned, success,
                 startVars, ccReturn, exitVars, calls, ccFault, tried, flagVars>>

\* ------------------------------------------------------------ main's exits

\* generate_report's Overall Status line: PASSED unless some entry of
\* test_results (the overall entry included) has status failed or error.
OverallLine(tr, ov) ==
  IF \/ \E c \in Categories : tr[c].status \in {"failed", "error"}
     \/ ov.status \in {"failed", "error"}
    THEN "FAILED"
    ELSE "PASSED"

\* generate_report, print, save_report (which swallows its own exceptions);
\* print may raise, which reaches main's `except Exception`.
Report ==
  /\ pc = "report"
  /\ \E ok \in BOOLEAN :
       IF ok
         THEN /\ report' = OverallLine(test_results, overall)
              /\ pc' = "sys_exit"
              /\ UNCHANGED crashed
         ELSE /\ crashed' = TRUE
              /\ pc' = "except_exc"
              /\ UNCHANGED report
  /\ UNCHANGED <<analyzerVars, mode, cleanup, docker_client, test_container, daemonVars,
                 resultVars, success, startVars, ccReturn, pendingExit,
                 exitCode, calls, ccFault, tried, setupFailed, interrupted>>

\* Mutant of ExitStatus: the exit status ignores the outcome.
ExitStatusAlwaysZero(ok) == 0

\* `sys.exit(0 if success else 1)`: SystemExit passes both except clauses and
\* reaches the finally clause.
ExitStatus(ok) == IF ok THEN 0 ELSE 1

SysExit ==
  /\ pc = "sys_exit"
  /\ pendingExit' = ExitStatus(success)
  /\ pc' = "finally"
  /\ UNCHANGED <<analyzerVars, mode, cleanup, docker_client, test_container, daemonVars,
                 resultVars, success, startVars, ccReturn, exitCode, report,
                 calls, ccFault, tried, flagVars>>

\* Mutant of ExceptKeyboardInterrupt: the handler ends the process at once,
\* without the finally clause.
ExceptKbdExitsAtOnce ==
  /\ pc = "except_kbd"
  /\ pendingExit' = 1
  /\ pc' = "exit"
  /\ UNCHANGED <<analyzerVars, mode, cleanup, docker_client, test_container, daemonVars,
                 resultVars, success, startVars, ccReturn, exitCode, report,
                 calls, ccFault, tried, flagVars>>

\* `except KeyboardInterrupt: ... sys.exit(1)`
ExceptKeyboardInterrupt ==
  /\ pc = "except_kbd"
  /\ pendingExit' = 1
  /\ pc' = "finally"
  /\ UNCHANGED <<analyzerVars, mode, cleanup, docker_client, test_container, daemonVars,
                 resultVars, success, startVars, ccReturn, exitCode, report,
                 calls, ccFault, tried, flagVars>>

\* `except Exception as e: ... sys.exit(1)`
ExceptException ==
  /\ pc = "except_exc"
  /\ pendingExit' = 1
  /\ pc' = "finally"
  /\ UNCHANGED <<analyzerVars, mode, cleanup, docker_client, test_container, daemonVars,
                 resultVars, success, startVars, ccReturn, exitCode, report,
                 calls, ccFault, tried, flagVars>>

\* finally: runner.cleanup_resources(), which returns at once when cleanup is
\* disabled and otherwise begins with cleanup_container.
CleanupResources ==
  /\ pc = "finally"
  /\ Called("cleanup_resources")
  /\ IF cleanup
       THEN /\ ccReturn' = "cleanup"
            /\ ccFault' = FALSE
            /\ tried' = {}
            /\ pc' = "cc_own"
       ELSE /\ pc' = "exit"
            /\ UNCHANGED <<ccReturn, ccFault, tried>>
  /\ UNCHANGED <<analyzerVars, mode, cleanup, docker_client, test_container, daemonVars,
                 resultVars, success, startVars, exitVars, flagVars>>

\* cleanup_resources, image part: images.get and images.remove; ImageNotFound is
\* passed over, every other exception (no client included) logged and swallowed.
RemoveImage ==
  /\ pc = "remove_image"
  /\ tried' = tried \cup {"image_get"}
  /\ IF docker_client /\ imageExists
       THEN \E ok \in BOOLEAN :
              /\ imageExists' = ~ok
              /\ ccFault' = (ccFault \/ ~ok)
       ELSE /\ ccFault' = (ccFault \/ ~docker_client)
            /\ UNCHANGED imageExists
  /\ pc' = "exit"
  /\ UNCHANGED <<analyzerVars, mode, cleanup, docker_client, test_container, named, cstatus,
                 nextId, resultVars, success, startVars, ccReturn, exitVars,
                 calls, flagVars>>

\* The finally clause is done: the exception in flight ends the process.
ProcessExit ==
  /\ pc = "exit"
  /\ exitCode' = pendingExit
  /\ pc' = "exited"
  /\ UNCHANGED <<analyzerVars, mode, cleanup, docker_client, test_container, daemonVars,
                 resultVars, success, startVars, ccReturn, pendingExit, report,
                 calls, ccFault, tried, flagVars>>

\* Positions inside main's try block, inside its except clauses, and inside
\* cleanup_resources.
InTry ==
  \/ pc \in {"main", "setup_docker", "build_image", "start_container",
             "run_container", "wait_running", "health_poll", "after_start",
             "run_unit", "run_integration", "run_api", "run_docker", "finish",
             "report", "sys_exit"}
  \/ (pc \in {"cc_own", "cc_named"} /\ ccReturn = "start")
InExcept == pc \in {"except_kbd", "except_exc"}
InCleanup ==
  \/ pc = "remove_image"
  \/ (pc \in {"cc_own", "cc_named"} /\ ccReturn = "cleanup")

\* Exit status of a process ended by an uncaught KeyboardInterrupt.
InterruptStatus == 130

\* A KeyboardInterrupt: no function of the runner catches it (they catch
\* Exception). In the try block it reaches `except KeyboardInterrupt`; in an
\* except clause it replaces the exception in flight and the finally clause
\* runs; inside cleanup_resources it passes `except Exception` and ends the
\* process.
Interrupt ==
  /\ InTry \/ InExcept \/ InCleanup
  /\ interrupted' = TRUE
  /\ CASE InTry -> /\ pc' = "except_kbd"
                   /\ UNCHANGED <<pendingExit, exitCode>>
       [] InExcept -> /\ pc' = "finally"
                      /\ pendingExit' = InterruptStatus
                      /\ UNCHANGED exitCode
       [] OTHER -> /\ pc' = "exited"
                   /\ exitCode' = InterruptStatus
                   /\ UNCHANGED pendingExit
  \* the frames of the interrupted calls are gone, and their history with them
  /\ waited' = 0
  /\ attempt' = 0
  /\ sawReady' = FALSE
  /\ seen200' = "none"
  /\ staleAtStart' = FALSE
  /\ conflict' = FALSE
  /\ ccFault' = FALSE
  /\ tried' = {}
  /\ UNCHANGED <<analyzerVars, mode, cleanup, docker_client, test_container, daemonVars,
                 resultVars, success, startResult, ccReturn, report, calls,
                 setupFailed, crashed>>

Next ==
  \/ Dispatch
  \/ SetupDocker
  \/ BuildDockerImage
  \/ StartTestContainer
  \/ CleanupOwn
  \/ CleanupNamed
  \/ RunContainer
  \/ WaitRunning
  \/ HealthPoll
  \/ AfterStart
  \/ RunUnitTests
  \/ RunIntegrationTests
  \/ RunApiTests
  \/ RunDockerTests
  \/ Finish
  \/ Report
  \/ SysExit
  \/ ExceptKeyboardInterrupt
  \/ ExceptException
  \/ CleanupResources
  \/ RemoveImage
  \/ ProcessExit
  \/ Interrupt

Spec == Init /\ [][Next]_vars

\* A caller invokes start_test_container again on the same runner after it has
\* returned (with either result): the container the first call created, if
\* any, is then the one left behind.
StartAgain ==
  /\ pc = "after_start"
  /\ calls["start_test_container"] < MaxStarts
  /\ pc' = "start_container"
  /\ UNCHANGED <<analyzerVars, mode, cleanup, docker_client, test_container, daemonVars,
                 resultVars, success, startVars, ccReturn, exitVars, calls,
                 ccFault, tried, flagVars>>

\* The container lifecycle alone, with start_test_container called up to
\* MaxStarts times: the flow up to the return of start_test_container.
NextRerun ==
  \/ Dispatch
  \/ SetupDocker
  \/ BuildDockerImage
  \/ StartTestContainer
  \/ CleanupOwn
  \/ CleanupNamed
  \/ RunContainer
  \/ WaitRunning
  \/ HealthPoll
  \/ StartAgain

\* The lifecycle does not read the cleanup flag, and reads the mode only to
\* tell unit from the flows that need the container.
InitRerun == Init /\ mode = "integration" /\ cleanup

SpecRerun == InitRerun /\ [][NextRerun]_vars

\* The lifecycle under the scheduling of the code: start_test_container is one
\* thread of control, reload(), requests.get(timeout=5) and sleep(1) return,
\* so a loop that can make its next round makes it.
SpecRerunFair ==
  InitRerun /\ [][NextRerun]_vars /\ WF_vars(WaitRunning) /\ WF_vars(HealthPoll)

\* =========================================================================
\* test_analyzer.py and quick_status.py
\* =========================================================================

\* ------------------------------------------------------------------ bounds
MaxTests == 5        \* the tests attribute ranges over 0..MaxTests
MaxFailures == 2     \* the failures attribute ranges over 0..MaxFailures
MaxOther == 1        \* the errors and skipped attributes range over 0..MaxOther
MaxChildren == 3     \* child elements of a testcase
MaxCases == 6        \* testcase elements over the files of one run
MaxCaseTime == 1     \* the time attribute of a testcase ranges over 0..MaxCaseTime
MaxMsgLen == 102     \* characters of a failure text or message attribute

\* ------------------------------------------------------- program constants
SlowestN == 5        \* test_analyzer.py:170  [:5]
TextPrefix == 100    \* test_analyzer.py:203  [:100]
HtmlPrefix == 200    \* test_analyzer.py:330  [:200]
QuickPrefix == 100   \* quick_status.py:103   [:100]

\* ------------------------------------------------------------ result files

\* An XML attribute as the readers see it: absent, an integer literal, or text
\* that int() / float() rejects. Times are in whole units.
Missing == [k |-> "missing", v |-> 0]
Garbage == [k |-> "garbage", v |-> 0]
Num(n) == [k |-> "int", v |-> n]

\* The attributes of a testsuite (or testsuites) element.
Attrs(t, f, e, sk, tm) ==
  [tests |-> t, failures |-> f, errors |-> e, skipped |-> sk, time |-> tm]
NoAttrs == Attrs(Missing, Missing, Missing, Missing, Missing)

\* The characters of a text of n characters (all different), and the marker
\* the reports append.
Text(n) == [i \in 1..n |-> i]
AttrText(n) == [i \in 1..n |-> 1000 + i]
Ellipsis == <<0, 0, 0>>
NoMessage == [i \in 1..10 |-> 0 - i]   \* the literal 'No message'

\* A child element of a testcase: its tag, the length of its text (-1: the
\* element has no text, .text is None) and of its message attribute (-1: absent).
Child(tag, text, message) == [tag |-> tag, text |-> text, message |-> message]
Tags == {"failure", "error", "skipped", "system-out"}

\* A testcase element.
Case(name, time, children) == [name |-> name, time |-> time, children |-> children]

\* A result file: whether it is well-formed XML, whether the root is a
\* testsuites element wrapping a testsuite (else the root is the testsuite),
\* the attributes of the root and of the nested testsuite, and the testcase
\* elements of the suite.
Doc(wf, wrapped, root, suite, cases) ==
  [wellformed |-> wf, wrapped |-> wrapped, root |-> root, suite |-> suite,
   cases |-> cases]
Malformed == Doc(FALSE, FALSE, NoAttrs, NoAttrs, <<>>)
Bare(attrs, cases) == Doc(TRUE, FALSE, attrs, attrs, cases)
Wrapped(root, attrs, cases) == Doc(TRUE, TRUE, root, attrs, cases)

\* ---------------------------------------------------------- parse_junit_xml

\* int(elem.get(attr, 0)) / float(elem.get(attr, 0)) where it does not raise.
ReadNum(a) == IF a.k = "int" THEN a.v ELSE 0

\* `testsuite = root.find('.//testsuite'); if testsuite is None: testsuite = root`
SuiteElement(doc) == IF doc.wrapped THEN doc.suite ELSE doc.root

HasChild(children, tag) == \E i \in 1..Len(children) : children[i].tag = tag

\* testcase.find(tag): the first child with that tag.
FindChild(children, tag) ==
  children[CHOOSE i \in 1..Len(children) :
             /\ children[i].tag = tag
             /\ \A j \in 1..(i - 1) : children[j].tag # tag]

\* Mutant of CaseStatus: an error child is looked for before a failure child.
CaseStatusErrorFirst(children) ==
  IF HasChild(children, "error") THEN "error"
  ELSE IF HasChild(children, "failure") THEN "failed"
  ELSE IF HasChild(children, "skipped") THEN "skipped"
  ELSE "passed"

\* The if / elif / elif over testcase.find('failure'), find('error'),
\* find('skipped'); the status stays 'passed' when none is found.
CaseStatus(children) ==
  IF HasChild(children, "failure") THEN "failed"
  ELSE IF HasChild(children, "error") THEN "error"
  ELSE IF HasChild(children, "skipped") THEN "skipped"
  ELSE "passed"

\* The key case_data gets besides status: 'failure', 'error', 'skipped', or none.
StatusKey(status) ==
  CASE status = "failed" -> "failure"
    [] status = "error" -> "error"
    [] status = "skipped" -> "skipped"
    [] OTHER -> "none"

\* case_data of one testcase: `suite` is "" while the record has no 'suite' key;
\* text is the value under the status key (-1: None).
CaseData(c) ==
  LET st == CaseStatus(c.children) IN
  [name |-> c.name, time |-> ReadNum(c.time), status |-> st,
   key |-> StatusKey(st),
   text |-> IF st = "passed" THEN -1 ELSE FindChild(c.children, StatusKey(st)).text,
   suite |-> ""]

\* The dict parse_junit_xml returns from its except branch.
EmptySuite ==
  [empty |-> TRUE, name |-> "", tests |-> 0, failures |-> 0, errors |-> 0,
   skipped |-> 0, time |-> 0, testcases |-> <<>>]

\* Mutant of ParseRaises: an absent suite attribute raises as well.
ParseRaisesOnMissing(doc) ==
  \/ ~doc.wellformed
  \/ \E a \in {"tests", "failures", "errors", "skipped", "time"} :
       SuiteElement(doc)[a].k # "int"
  \/ \E i \in 1..Len(doc.cases) : doc.cases[i].time.k = "garbage"

\* ET.parse raises on a malformed file, int() / float() on an attribute that
\* is not a number; every exception is caught.
ParseRaises(doc) ==
  \/ ~doc.wellformed
  \/ \E a \in {"tests", "failures", "errors", "skipped", "time"} :
       SuiteElement(doc)[a].k = "garbage"
  \/ \E i \in 1..Len(doc.cases) : doc.cases[i].time.k = "garbage"

ParseJunitXml(doc) ==
  IF ParseRaises(doc)
    THEN EmptySuite
    ELSE LET el == SuiteElement(doc) IN
         [empty |-> FALSE, name |-> "pytest",
          tests |-> ReadNum(el.tests), failures |-> ReadNum(el.failures),
          errors |-> ReadNum(el.errors), skipped |-> ReadNum(el.skipped),
          time |-> ReadNum(el.time),
          testcases |-> [i \in 1..Len(doc.cases) |-> CaseData(doc.cases[i])]]

\* load_all_results: one entry per file found, in the order of the file list.
LoadAll(fs) == [i \in 1..Len(fs) |-> ParseJunitXml(fs[i])]

\* ------------------------------------------------------------- aggregation

\* sum(suite.get(field, 0) for suite in results.values())
RECURSIVE SumField(_, _)
SumField(rs, field) ==
  IF rs = <<>> THEN 0 ELSE rs[1][field] + SumField(Tail(rs), field)

\* Mutant of PassCount: skipped tests count as passed.
PassCountIgnoringSkipped(tests, failures, errors, skipped) ==
  tests - failures - errors

\* `passed = tests - failures - errors - skipped`
PassCount(tests, failures, errors, skipped) == tests - failures - errors - skipped

\* passed / tests * 100 as the format .1f prints it, in tenths of a percent
\* (tests > 0).
RateTenths(passed, tests) ==
  IF passed >= 0
    THEN (2000 * passed + tests) \div (2 * tests)
    ELSE 0 - ((2000 * (0 - passed) + tests) \div (2 * tests))

\* The suites a report lists: `if not suite_data: continue`.
RECURSIVE NonEmpty(_)
NonEmpty(rs) ==
  IF rs = <<>> THEN <<>>
  ELSE IF rs[1].empty THEN NonEmpty(Tail(rs))
  ELSE <<rs[1]>> \o NonEmpty(Tail(rs))

\* The per-suite line of a report.
SuiteLine(sd) ==
  [tests |-> sd.tests,
   passed |-> PassCount(sd.tests, sd.failures, sd.errors, sd.skipped),
   failures |-> sd.failures, errors |-> sd.errors]

\* All case records of all suites, in the order of results.values() and of the
\* cases within a suite.
RECURSIVE AllTestcases(_)
AllTestcases(rs) ==
  IF rs = <<>> THEN <<>> ELSE rs[1].testcases \o AllTestcases(Tail(rs))

\* sorted(..., key=time, reverse=True): a stable sort, equal keys keep their
\* order. Inserting the cases one by one behind every case that is not faster.
InsertByTime(sorted, x) ==
  LET k == Cardinality({i \in 1..Len(sorted) : sorted[i].time >= x.time}) IN
  SubSeq(sorted, 1, k) \o <<x>> \o SubSeq(sorted, k + 1, Len(sorted))

RECURSIVE SortedByTime(_)
SortedByTime(cs) ==
  IF cs = <<>> THEN <<>>
  ELSE InsertByTime(SortedByTime(SubSeq(cs, 1, Len(cs) - 1)), cs[Len(cs)])

\* Mutant of Slowest: the sort is ascending.
SlowestAscending(cs) ==
  LET srt == SortedByTime(cs)
      rev == [i \in 1..Len(srt) |-> srt[Len(srt) + 1 - i]]
  IN SubSeq(rev, 1, IF Len(rev) < SlowestN THEN Len(rev) ELSE SlowestN)

\* `sorted(all_testcases, key=lambda x: x.get('time', 0), reverse=True)[:5]`
Slowest(cs) ==
  LET srt == SortedByTime(cs) IN
  SubSeq(srt, 1, IF Len(srt) < SlowestN THEN Len(srt) ELSE SlowestN)

\* Mutant of Truncated: the slice keeps one character more.
TruncatedOneMore(chars, n) ==
  SubSeq(chars, 1, IF Len(chars) < n + 1 THEN Len(chars) ELSE n + 1) \o Ellipsis

\* f"{message[:n]}...": the first n characters, then the marker.
Truncated(chars, n) ==
  SubSeq(chars, 1, IF Len(chars) < n THEN Len(chars) ELSE n) \o Ellipsis

\* The cases a report gives details of.
RECURSIVE NonPassing(_)
NonPassing(cs) ==
  IF cs = <<>> THEN <<>>
  ELSE IF cs[1].status \in {"failed", "error"}
    THEN <<cs[1]>> \o NonPassing(Tail(cs))
    ELSE NonPassing(Tail(cs))

\* Slicing the message of a non-passing case raises TypeError when the failure
\* or error element had no text (the value is None).
DetailsRaise(rs) ==
  \E i \in 1..Len(NonPassing(AllTestcases(rs))) :
    NonPassing(AllTestcases(rs))[i].text = -1

Details(rs, n) ==
  LET np == NonPassing(AllTestcases(rs)) IN
  [i \in 1..Len(np) |->
     [name |-> np[i].name, status |-> np[i].status,
      line |-> Truncated(Text(np[i].text), n)]]

\* ------------------------------------------------- generate_summary_report

\* `testcase['suite'] = suite_data.get('name', 'Unknown')` for every case of
\* every suite: the records of the results mapping themselves are written.
Tagged(rs) ==
  [i \in 1..Len(rs) |->
     [rs[i] EXCEPT !.testcases =
        [j \in 1..Len(rs[i].testcases) |->
           [rs[i].testcases[j] EXCEPT !.suite = rs[i].name]]]]

SummaryReport(rs) ==
  LET t == SumField(rs, "tests")
      f == SumField(rs, "failures")
      e == SumField(rs, "errors")
      sk == SumField(rs, "skipped")
      p == PassCount(t, f, e, sk)
      ne == NonEmpty(rs)
  IN IF DetailsRaise(rs)
       THEN [NoReport EXCEPT !.state = "raised"]
       ELSE [state |-> "ok", total_tests |-> t, total_failures |-> f,
             total_errors |-> e, total_skipped |-> sk, total_passed |-> p,
             shown_passed |-> IF t > 0 THEN p ELSE 0,
             has_rate |-> t > 0,
             rate |-> IF t > 0 THEN RateTenths(p, t) ELSE 0,
             all_passing |-> (f = 0 /\ e = 0),
             suites |-> [i \in 1..Len(ne) |-> SuiteLine(ne[i])],
             slowest |-> Slowest(AllTestcases(Tagged(rs))),
             details |-> Details(rs, TextPrefix)]

\* ---------------------------------------------------- generate_html_report

\* `{total_passed/total_tests*100:.1f}` divides by zero when there are no
\* tests; `error_msg[:200]` raises when the message is None.
HtmlRaises(rs) == SumField(rs, "tests") = 0 \/ DetailsRaise(rs)

HtmlReport(rs) ==
  LET t == SumField(rs, "tests")
      f == SumField(rs, "failures")
      e == SumField(rs, "errors")
      sk == SumField(rs, "skipped")
      p == PassCount(t, f, e, sk)
      ne == NonEmpty(rs)
  IN IF HtmlRaises(rs)
       THEN [NoReport EXCEPT !.state = "raised"]
       ELSE [state |-> "ok", total_tests |-> t, total_failures |-> f,
             total_errors |-> e, total_skipped |-> sk, total_passed |-> p,
             shown_passed |-> p,
             has_rate |-> TRUE,
             rate |-> RateTenths(p, t),
             all_passing |-> (f = 0 /\ e = 0),
             suites |-> [i \in 1..Len(ne) |-> SuiteLine(ne[i])],
             slowest |-> <<>>,
             details |-> Details(rs, HtmlPrefix)]

\* ------------------------------------------------------------ quick_status

\* `testsuite = root.find('.//testsuite') or root`: an Element without
\* children is falsy, so a nested testsuite with no testcase is passed over.
QuickSuiteElement(doc) ==
  IF doc.wrapped /\ doc.cases # <<>> THEN doc.suite ELSE doc.root

\* The try block of quick_check raises on a malformed file and on a tests,
\* failures, errors or time attribute that is not a number.
QuickRaises(doc) ==
  \/ ~doc.wellformed
  \/ \E a \in {"tests", "failures", "errors", "time"} :
       QuickSuiteElement(doc)[a].k = "garbage"

\* What one file adds to a total of quick_check: nothing when reading it raised.
QuickAdds(doc, field) ==
  IF QuickRaises(doc) THEN 0 ELSE ReadNum(QuickSuiteElement(doc)[field])

RECURSIVE QuickTotal(_, _)
QuickTotal(fs, field) ==
  IF fs = <<>> THEN 0 ELSE QuickAdds(fs[1], field) + QuickTotal(Tail(fs), field)

\* The value quick_check returns.
QuickCheck(fs) ==
  IF fs = <<>> THEN 1
  ELSE IF QuickTotal(fs, "failures") = 0 /\ QuickTotal(fs, "errors") = 0
    THEN 0 ELSE 1

\* What quick_check computes after its loop over the files and prints: the
\* pass count and success rate appear only in the failing branch.
QuickReport(fs) ==
  IF fs = <<>> THEN NoQuick
  ELSE LET t == QuickTotal(fs, "tests")
           f == QuickTotal(fs, "failures")
           e == QuickTotal(fs, "errors")
       IN [ran |-> TRUE, total_tests |-> t, total_failures |-> f,
           total_errors |-> e, passed |-> t - f - e,
           rate |-> IF t > 0 THEN RateTenths(t - f - e, t) ELSE 0,
           rate_shown |-> ~(f = 0 /\ e = 0)]

\* `elem.get('message', elem.text or 'No message')`
QuickMessage(child) ==
  IF child.message >= 0 THEN AttrText(child.message)
  ELSE IF child.text > 0 THEN Text(child.text)
  ELSE NoMessage

\* The entry show_failed_tests makes for a testcase with a failure or an
\* error child; the failure child is looked at first.
FailedEntry(c) ==
  LET tag == IF HasChild(c.children, "failure") THEN "failure" ELSE "error" IN
  [name |-> c.name, kind |-> tag,
   line |-> SubSeq(QuickMessage(FindChild(c.children, tag)), 1,
                   IF Len(QuickMessage(FindChild(c.children, tag))) < QuickPrefix
                     THEN Len(QuickMessage(FindChild(c.children, tag)))
                     ELSE QuickPrefix) \o Ellipsis]

RECURSIVE FailedOfCases(_)
FailedOfCases(cs) ==
  IF cs = <<>> THEN <<>>
  ELSE IF HasChild(cs[1].children, "failure") \/ HasChild(cs[1].children, "error")
    THEN <<FailedEntry(cs[1])>> \o FailedOfCases(Tail(cs))
    ELSE FailedOfCases(Tail(cs))

\* show_failed_tests: a file that cannot be parsed is passed over.
RECURSIVE ShowFailed(_)
ShowFailed(fs) ==
  IF fs = <<>> THEN <<>>
  ELSE (IF fs[1].wellformed THEN FailedOfCases(fs[1].cases) ELSE <<>>)
         \o ShowFailed(Tail(fs))

\* ------------------------------------------------------------------ inputs
\* The result files a run finds in the results directory. Every file is named
\* <type>_test_results.xml, so both tools find the same files.

NumAttrs(t, f, e, sk) == Attrs(Num(t), Num(f), Num(e), Num(sk), Num(0))

\* Files that carry counts only.
CountDocs ==
  {Bare(NumAttrs(t, f, e, sk), <<>>) :
     t \in 0..MaxTests, f \in 0..MaxFailures, e \in 0..MaxOther, sk \in 0..MaxOther}

SecondDocs ==
  {Malformed, Bare(NumAttrs(3, 0, 0, 0), <<>>), Bare(NumAttrs(0, 0, 0, 0), <<>>),
   Bare(NumAttrs(1, 1, 1, 1), <<>>)}

CountFiles ==
  {<<d>> : d \in CountDocs} \cup {<<d, e>> : d \in CountDocs, e \in SecondDocs}
    \cup {<<Malformed, d>> : d \in CountDocs} \cup {<<>>, <<Malformed>>}

\* Files whose attributes are absent, numbers, or not numbers.
AttrValues == {Missing, Garbage, Num(1)}
PlainCase(i, tm) == Case(i, tm, <<>>)
AttrSets ==
  {Attrs(t, f, e, sk, tm) : t \in AttrValues, f \in AttrValues, e \in AttrValues,
                             sk \in AttrValues, tm \in AttrValues}
AttrFiles ==
  {<<Bare(a, cs)>> : a \in AttrSets, cs \in {<<>>, <<PlainCase(1, Num(1))>>}}
    \cup {<<Wrapped(r, a, cs)>> :
            r \in {NoAttrs, NumAttrs(2, 1, 0, 0)}, a \in AttrSets,
            cs \in {<<>>, <<PlainCase(1, Missing)>>}}
    \cup {<<Bare(NumAttrs(1, 0, 0, 0), <<PlainCase(1, tm)>>)>> : tm \in AttrValues}

\* Files with one testcase and every sequence of child elements.
ChildSeqs == UNION {[1..n -> Tags] : n \in 0..MaxChildren}
CaseFiles ==
  {<<Bare(NumAttrs(1, 0, 0, 0),
          <<Case(1, Num(0), [i \in 1..Len(q) |-> Child(q[i], 1, -1)])>>)>> :
     q \in ChildSeqs}

\* Up to MaxCases timed testcases, in one file or split over two.
TimeSeqs == UNION {[1..n -> 0..MaxCaseTime] : n \in 0..MaxCases}
TimedDoc(ts, from, to) ==
  Bare(NumAttrs(to - from + 1, 0, 0, 0),
       [i \in 1..(to - from + 1) |-> PlainCase(from + i - 1, Num(ts[from + i - 1]))])
TimedFiles ==
  {<<TimedDoc(ts, 1, Len(ts))>> : ts \in TimeSeqs}
    \cup {<<TimedDoc(ts, 1, Len(ts) \div 2),
            TimedDoc(ts, Len(ts) \div 2 + 1, Len(ts))>> : ts \in TimeSeqs}

\* One failing testcase whose message has every length up to MaxMsgLen.
MessageFiles ==
  {<<Bare(NumAttrs(1, 1, 0, 0), <<Case(1, Num(0), <<Child(tag, n, m)>>)>>)>> :
     tag \in {"failure", "error"}, n \in (-1)..MaxMsgLen, m \in {-1, 0, MaxMsgLen}}

InputFiles == CountFiles \cup AttrFiles \cup CaseFiles \cup TimedFiles \cup MessageFiles

\* --------------------------------------------------------------- the tools

InitAnalyzer ==
  /\ InitRunner
  /\ mode = "unit" /\ cleanup /\ named = 0 /\ cstatus = "exited" /\ ~imageExists
  /\ files \in InputFiles
  /\ apc = "start"
  /\ results = <<>> /\ parsed = <<>>
  /\ summary = NoReport /\ savedText = NoReport /\ savedHtml = NoReport
  /\ quickExit = -1 /\ quick = NoQuick /\ shown = <<>>

\* analyze: load_all_results, and the return when nothing was found. The
\* analyzer is run on the directory as found, or after quick_status was.
LoadAllResults ==
  /\ apc \in {"start", "quickdone"}
  /\ results' = LoadAll(files)
  /\ parsed' = LoadAll(files)
  /\ apc' = IF files = <<>> THEN "done" ELSE "loaded"
  /\ UNCHANGED <<runnerVars, files, summary, savedText, savedHtml, quickExit, quick, shown>>

\* analyze: `summary = self.generate_summary_report(results)`.
GenerateSummary ==
  /\ apc = "loaded"
  /\ summary' = SummaryReport(results)
  /\ results' = Tagged(results)
  /\ apc' = IF SummaryReport(results).state = "raised" THEN "raised" ELSE "summarized"
  /\ UNCHANGED <<runnerVars, files, parsed, savedText, savedHtml, quickExit, quick, shown>>

\* save_reports: both reports are generated before either file is written.
SaveReports ==
  /\ apc = "summarized"
  /\ IF SummaryReport(results).state = "raised" \/ HtmlReport(Tagged(results)).state = "raised"
       THEN /\ apc' = "raised"
            /\ UNCHANGED <<savedText, savedHtml>>
       ELSE /\ apc' = "done"
            /\ savedText' = SummaryReport(results)
            /\ savedHtml' = HtmlReport(Tagged(results))
  /\ results' = Tagged(results)
  /\ UNCHANGED <<runnerVars, files, parsed, summary, quickExit, quick, shown>>

\* quick_status main: `exit_code = quick_check()`.
QuickStatus ==
  /\ apc = "start"
  /\ quickExit' = QuickCheck(files)
  /\ quick' = QuickReport(files)
  /\ apc' = "quick"
  /\ UNCHANGED <<runnerVars, files, results, parsed, summary, savedText, savedHtml, shown>>

\* quick_status main: show_failed_tests when asked for or when the check
\* failed, then sys.exit(exit_code).
ShowFailedTests ==
  /\ apc = "quick"
  /\ \E failedFlag \in BOOLEAN :
       shown' = IF failedFlag \/ quickExit # 0 THEN ShowFailed(files) ELSE <<>>
  /\ apc' = "quickdone"
  /\ UNCHANGED <<runnerVars, files, results, parsed, summary, savedText, savedHtml, quickExit, quick>>

NextAnalyzer ==
  \/ LoadAllResults
  \/ GenerateSummary
  \/ SaveReports
  \/ QuickStatus
  \/ ShowFailedTests

SpecAnalyzer == InitAnalyzer /\ [][NextAnalyzer]_vars

\* ------------------------------------------------------------------ claims

Ran(c) == \E i \in 1..Len(runLog) : runLog[i] = c
AllExecutedPassed == \A c \in Categories : Ran(c) => test_results[c].status = "passed"
SuiteOrder == <<"unit", "integration", "api", "docker">>

\* C1: on every exit path of main (suites passed or failed, setup failed, an
\* unexpected exception, a keyboard interrupt in the try block, in an except
\* clause or during the teardown itself) cleanup_resources is invoked exactly
\* once, and before the process has exited: it is never invoked twice, it has
\* been invoked once when the process has exited, and it is not invoked while
\* the try block or an except clause is still running.
C1_TeardownExactlyOnce ==
  /\ calls["cleanup_resources"] <= 1
  /\ (pc = "exited" => calls["cleanup_resources"] = 1)
  /\ (InTry \/ InExcept => calls["cleanup_resources"] = 0)

\* C1 witness: the process has exited after a keyboard interrupt that arrived
\* while suites were running, with the container started, and teardown ran once.
C1_Witness ==
  /\ pc = "exited"
  /\ interrupted
  /\ exitCode = 1
  /\ Len(runLog) = 2
  /\ calls["start_test_container"] = 1
  /\ calls["cleanup_resources"] = 1

\* C2: in a mode that needs the container, once setup_docker,
\* build_docker_image or start_test_container has failed, no suite subprocess
\* is ever executed: all four categories keep status not_run, up to the end of
\* the run.
C2_NoSuiteAfterSetupFailure ==
  setupFailed =>
    /\ mode # "unit"
    /\ runLog = <<>>
    /\ \A c \in Categories : test_results[c] = InitResult

\* C2 witness: a run in mode all has ended after start_test_container failed.
C2_Witness ==
  /\ pc = "exited"
  /\ mode = "all"
  /\ setupFailed
  /\ calls["start_test_container"] = 1
  /\ ~interrupted

\* C3 (as claimed, refuted by the code): after a setup failure the overall
\* status recorded for the run is failed (stated for the runs that end without
\* an interrupt or an unexpected exception).
C3_SetupFailureRecordedFailed ==
  (pc = "exited" /\ setupFailed /\ ~interrupted /\ ~crashed)
    => overall.status = "failed"

\* C4: start_test_container returns True only if some health poll returned 200
\* with status healthy and a true (truthy) model_loaded; and when every 200
\* response received had model_loaded false or a status other than healthy, it
\* does not return True.
C4_ReadyOnlyIfModelLoaded ==
  pc = "after_start" =>
    /\ (startResult => sawReady)
    /\ (seen200 \in {"none", "unready"} => ~startResult)

\* C4 witness: start_test_container has returned False after polls that
\* answered 200 with model_loaded false or status not healthy, and no other 200.
C4_Witness ==
  /\ pc = "after_start"
  /\ seen200 = "unready"
  /\ ~startResult
  /\ test_container # 0

\* C5: a run in mode unit never invokes setup_docker, build_docker_image or
\* start_test_container, whatever the unit suite does.
C5_UnitModeNoContainerOps ==
  mode = "unit" =>
    /\ calls["setup_docker"] = 0
    /\ calls["build_docker_image"] = 0
    /\ calls["start_test_container"] = 0
    /\ ~docker_client
    /\ test_container = 0

\* C5 witness: a run in mode unit has ended with the unit suite failed.
C5_Witness ==
  /\ pc = "exited"
  /\ mode = "unit"
  /\ test_results["unit"].status = "failed"

\* C6 (as claimed, refuted by the code): the exit code is 0 exactly when setup
\* succeeded and every executed category passed, the interrupted runs apart,
\* which exit nonzero.
C6_ExitZeroIffPassed ==
  pc = "exited" =>
    (exitCode = 0 <=> (~setupFailed /\ AllExecutedPassed /\ ~interrupted))

\* C6 (amended): the exit code is 0 exactly when setup succeeded, every
\* executed category passed, and neither a keyboard interrupt nor an unexpected
\* exception (one that reaches main's `except Exception`) occurred; in every
\* other case it is nonzero.
C6_ExitZeroIffPassedAndNoException ==
  pc = "exited" =>
    /\ exitCode >= 0
    /\ (exitCode = 0 <=>
          (~setupFailed /\ AllExecutedPassed /\ ~interrupted /\ ~crashed))

\* C6 witness: a run of all four suites has exited with code 0.
C6_Witness ==
  /\ pc = "exited"
  /\ exitCode = 0
  /\ runLog = SuiteOrder

\* C7: in mode all the suites run in the order unit, integration, api, docker,
\* each at most once and one at a time (the run log is a prefix of that order),
\* and once setup has succeeded all four have run when the testing phase ends,
\* whatever each suite's outcome was; only an interrupt cuts the sequence short.
C7_AllModeSuiteOrder ==
  mode = "all" =>
    /\ Len(runLog) <= Len(SuiteOrder)
    /\ \A i \in 1..Len(runLog) : runLog[i] = SuiteOrder[i]
    /\ (pc = "finish" => runLog = SuiteOrder)
    /\ (pc = "exited" /\ ~setupFailed /\ ~interrupted => runLog = SuiteOrder)
    /\ (pc \in {"run_unit", "run_integration", "run_api", "run_docker"}
          => pc = SuitePc(SuiteOrder[Len(runLog) + 1]))

\* C7 witness: in mode all the testing phase has ended although the unit suite
\* could not be started and the integration suite failed.
C7_Witness ==
  /\ mode = "all"
  /\ pc = "finish"
  /\ test_results["unit"].status = "error"
  /\ test_results["integration"].status = "failed"
  /\ test_results["docker"].status = "passed"

\* C8 (as claimed, refuted by the code): a category whose subprocess launch
\* raised has status error and its duration holds the elapsed time of the
\* attempt.
C8_ErrorDurationRecorded ==
  \A c \in Categories :
    (Ran(c) /\ lastOutcome[c].raised) =>
      /\ test_results[c].status = "error"
      /\ test_results[c].duration = elapsed[c]

\* C9: for each category runner, return code 0 gives status passed and the
\* return value True, a nonzero return code gives failed and False, an
\* exception gives error and False; a category that was not run stays not_run.
C9_StatusFromOutcome ==
  \A c \in Categories :
    IF Ran(c)
      THEN LET o == lastOutcome[c] IN
           /\ (~o.raised /\ o.returncode = 0 =>
                 test_results[c].status = "passed" /\ returned[c])
           /\ (~o.raised /\ o.returncode # 0 =>
                 test_results[c].status = "failed" /\ ~returned[c])
           /\ (o.raised => test_results[c].status = "error" /\ ~returned[c])
      ELSE test_results[c].status = "not_run" /\ ~returned[c]

\* C9 witness: in one run a suite passed, one failed and one could not be
\* started.
C9_Witness ==
  /\ test_results["unit"].status = "passed"
  /\ test_results["integration"].status = "failed"
  /\ lastOutcome["integration"].returncode = 1
  /\ test_results["api"].status = "error"

Loaded == apc \in {"loaded", "summarized", "raised", "done"}

\* The element parse_junit_xml read the counts of file i from.
SuiteOf(i) == IF files[i].wrapped THEN files[i].suite ELSE files[i].root

\* File i was parsed into a suite record.
ParsedOk(i) == ~parsed[i].empty

\* The testcase element j of file i has a child with this tag.
Marked(i, j, tag) ==
  \E k \in 1..Len(files[i].cases[j].children) :
    files[i].cases[j].children[k].tag = tag

\* C11: every parsed testcase has exactly one status, fixed by the first of
\* failure, error, skipped it has a child of, whatever its other children and
\* their order: failed with a failure child, error with an error child and no
\* failure, skipped with only a skipped child, passed with none of the three.
C11_StatusByMarkerPriority ==
  Loaded =>
    \A i \in 1..Len(files) :
      ParsedOk(i) =>
        /\ Len(parsed[i].testcases) = Len(files[i].cases)
        /\ \A j \in 1..Len(files[i].cases) :
             LET st == parsed[i].testcases[j].status IN
             /\ st \in {"failed", "error", "skipped", "passed"}
             /\ (Marked(i, j, "failure") => st = "failed")
             /\ (~Marked(i, j, "failure") /\ Marked(i, j, "error") => st = "error")
             /\ (~Marked(i, j, "failure") /\ ~Marked(i, j, "error")
                   /\ Marked(i, j, "skipped") => st = "skipped")
             /\ (~Marked(i, j, "failure") /\ ~Marked(i, j, "error")
                   /\ ~Marked(i, j, "skipped") => st = "passed")

\* C11 witness: a testcase whose children are an error, a skipped and then a
\* failure element was parsed as failed.
C11_Witness ==
  /\ Loaded
  /\ Len(files) = 1 /\ Len(files[1].cases) = 1
  /\ Len(files[1].cases[1].children) = 3
  /\ files[1].cases[1].children[1].tag = "error"
  /\ files[1].cases[1].children[2].tag = "skipped"
  /\ files[1].cases[1].children[3].tag = "failure"
  /\ parsed[1].testcases[1].status = "failed"

\* The sum of a count over the first n parsed suites.
RECURSIVE ParsedSum(_, _)
ParsedSum(field, n) ==
  IF n = 0 THEN 0 ELSE ParsedSum(field, n - 1) + parsed[n][field]

\* The totals of a generated report are the sums over the parsed suites and
\* its pass count is total - failures - errors - skipped.
TotalsAreSums(rep) ==
  rep.state = "ok" =>
    /\ rep.total_tests = ParsedSum("tests", Len(parsed))
    /\ rep.total_failures = ParsedSum("failures", Len(parsed))
    /\ rep.total_errors = ParsedSum("errors", Len(parsed))
    /\ rep.total_skipped = ParsedSum("skipped", Len(parsed))
    /\ rep.total_passed = rep.total_tests - rep.total_failures
                            - rep.total_errors - rep.total_skipped

\* C12: in the text report and in the HTML report the totals of tests,
\* failures, errors and skipped are the sums over all parsed suites, and the
\* pass count is total minus failures minus errors minus skipped.
C12_TotalsAreSums ==
  /\ TotalsAreSums(summary)
  /\ TotalsAreSums(savedText)
  /\ TotalsAreSums(savedHtml)

\* C12 witness: suites of 5 tests / 1 failure and 3 tests / 0 failures were
\* reported as 8 tests, 1 failure, 7 passes, 87.5%.
C12_Witness ==
  /\ apc = "done"
  /\ Len(parsed) = 2
  /\ parsed[1].tests = 5 /\ parsed[1].failures = 1
  /\ parsed[2].tests = 3 /\ parsed[2].failures = 0
  /\ savedText.state = "ok" /\ savedHtml.state = "ok"
  /\ savedText.total_tests = 8 /\ savedText.total_failures = 1
  /\ savedText.total_passed = 7 /\ savedText.rate = 875
  /\ savedHtml.total_tests = 8 /\ savedHtml.total_failures = 1
  /\ savedHtml.total_passed = 7 /\ savedHtml.rate = 875

\* The pass counts a report shows are not negative.
PassCountsClamped(rep) ==
  rep.state = "ok" =>
    /\ rep.shown_passed >= 0
    /\ \A i \in 1..Len(rep.suites) : rep.suites[i].passed >= 0

\* C13: the pass count reported, overall and per suite, is never negative:
\* it is 0 when failures + errors + skipped exceed the tests count.
C13_PassCountNeverNegative ==
  /\ PassCountsClamped(summary)
  /\ PassCountsClamped(savedText)
  /\ PassCountsClamped(savedHtml)

\* analyze has ended: it returned, or an exception left it.
Ended == apc \in {"raised", "done"}

\* C14: when the tests of all suites add up to 0, the success rate counts as 0
\* and analyze still produces the text report and the HTML report; no renderer
\* fails with a division by zero.
C14_ZeroTotalStillReported ==
  (Ended /\ files # <<>> /\ ParsedSum("tests", Len(parsed)) = 0) =>
    /\ apc = "done"
    /\ savedText.state = "ok" /\ savedText.rate = 0
    /\ savedHtml.state = "ok" /\ savedHtml.rate = 0

\* The sum of a count over those of the first n files that are well-formed.
RECURSIVE WellFormedSum(_, _)
WellFormedSum(field, n) ==
  IF n = 0 THEN 0
  ELSE WellFormedSum(field, n - 1)
         + (IF files[n].wellformed /\ SuiteOf(n)[field].k = "int"
              THEN SuiteOf(n)[field].v ELSE 0)

TotalsOfWellFormed(rep) ==
  /\ rep.state = "ok"
  /\ rep.total_tests = WellFormedSum("tests", Len(files))
  /\ rep.total_failures = WellFormedSum("failures", Len(files))
  /\ rep.total_errors = WellFormedSum("errors", Len(files))
  /\ rep.total_skipped = WellFormedSum("skipped", Len(files))

\* C15: a malformed result file does not abort the analysis: it is skipped,
\* the other files are loaded, and analyze completes with a text and an HTML
\* report whose totals are those of the well-formed files alone.
C15_MalformedFileSkipped ==
  (Ended /\ \E i \in 1..Len(files) : ~files[i].wellformed) =>
    /\ apc = "done"
    /\ Len(parsed) = Len(files)
    /\ \A i \in 1..Len(files) : files[i].wellformed => ParsedOk(i)
    /\ TotalsOfWellFormed(savedText)
    /\ TotalsOfWellFormed(savedHtml)

\* The attributes parse_junit_xml reads of a suite element.
SuiteFields == {"tests", "failures", "errors", "skipped", "time"}

\* No attribute that is present in file i has a value int() / float() rejects.
NoGarbage(i) ==
  /\ \A a \in SuiteFields : SuiteOf(i)[a].k # "garbage"
  /\ \A j \in 1..Len(files[i].cases) : files[i].cases[j].time.k # "garbage"

\* C16: a well-formed file whose suite element lacks any of tests, failures,
\* errors, skipped, time is parsed without failure: a suite record is
\* returned in which each missing count is 0 (time 0.0) and each attribute
\* that is present has its value.
C16_MissingAttributesReadAsZero ==
  Loaded =>
    \A i \in 1..Len(files) :
      (files[i].wellformed /\ NoGarbage(i)) =>
        /\ ParsedOk(i)
        /\ \A a \in SuiteFields :
             /\ (SuiteOf(i)[a].k = "missing" => parsed[i][a] = 0)
             /\ (SuiteOf(i)[a].k = "int" => parsed[i][a] = SuiteOf(i)[a].v)

\* C16 witness: a suite element with a tests attribute only, nested in a root
\* that has counts of its own, was parsed with every other count 0.
C16_Witness ==
  /\ Loaded
  /\ Len(files) = 1 /\ files[1].wellformed /\ files[1].wrapped
  /\ files[1].root.failures.k = "int" /\ files[1].root.failures.v = 1
  /\ files[1].suite.tests.k = "int"
  /\ \A a \in SuiteFields \ {"tests"} : files[1].suite[a].k = "missing"
  /\ ParsedOk(1)
  /\ parsed[1].tests = 1
  /\ \A a \in SuiteFields \ {"tests"} : parsed[1][a] = 0

\* The positions of the parsed testcases: suite, then case within the suite.
CasePositions ==
  UNION {{<<i, j>> : j \in 1..Len(parsed[i].testcases)} : i \in 1..Len(parsed)}

TimeAt(p) == parsed[p[1]].testcases[p[2]].time

\* p was encountered before q.
Before(p, q) == p[1] < q[1] \/ (p[1] = q[1] /\ p[2] < q[2])

\* The place of p among all cases by time descending, equal times in the
\* order of encounter.
Rank(p) ==
  Cardinality({q \in CasePositions :
                 TimeAt(q) > TimeAt(p) \/ (TimeAt(q) = TimeAt(p) /\ Before(q, p))}) + 1

SlowestIsFirstFiveByTime(rep) ==
  rep.state = "ok" =>
    /\ Len(rep.slowest) = IF Cardinality(CasePositions) < 5
                            THEN Cardinality(CasePositions) ELSE 5
    /\ \A p \in CasePositions :
         Rank(p) <= 5 =>
           /\ rep.slowest[Rank(p)].name = parsed[p[1]].testcases[p[2]].name
           /\ rep.slowest[Rank(p)].time = TimeAt(p)

\* C17: the slowest-tests list of the text report is the first 5 of all cases
\* of all suites by elapsed time descending, cases of equal time in the order
\* in which they were encountered (suite order, then case order).
C17_SlowestFirstFiveStable ==
  /\ SlowestIsFirstFiveByTime(summary)
  /\ SlowestIsFirstFiveByTime(savedText)

\* C17 witness: six cases in two files with times 0 1 1 | 0 1 1 were listed
\* as the four slow ones in file order, then the first of the two fast ones.
C17_Witness ==
  /\ summary.state = "ok"
  /\ Len(parsed) = 2
  /\ Len(parsed[1].testcases) = 3 /\ Len(parsed[2].testcases) = 3
  /\ [j \in 1..3 |-> parsed[1].testcases[j].time] = <<0, 1, 1>>
  /\ [j \in 1..3 |-> parsed[2].testcases[j].time] = <<0, 1, 1>>
  /\ [k \in 1..5 |-> summary.slowest[k].name] = <<2, 3, 5, 6, 1>>

\* The detail line of the report for the case of this name.
LineOf(rep, name) ==
  rep.details[CHOOSE k \in 1..Len(rep.details) : rep.details[k].name = name].line

LongMessagesCut(rep) ==
  rep.state = "ok" =>
    \A i \in 1..Len(parsed) :
      \A j \in 1..Len(parsed[i].testcases) :
        LET c == parsed[i].testcases[j] IN
        (c.status \in {"failed", "error"} /\ c.text > 100) =>
          /\ \E k \in 1..Len(rep.details) : rep.details[k].name = c.name
          /\ Len(LineOf(rep, c.name)) = 100 + Len(Ellipsis)
          /\ \A n \in 1..100 : LineOf(rep, c.name)[n] = Text(c.text)[n]
          /\ \A n \in 1..Len(Ellipsis) : LineOf(rep, c.name)[100 + n] = Ellipsis[n]

\* C18: in the text report a failure or error message of more than 100
\* characters appears as exactly its first 100 characters followed by the
\* ellipsis marker, and nothing of the message beyond them.
C18_LongMessageTruncated ==
  /\ LongMessagesCut(summary)
  /\ LongMessagesCut(savedText)

\* C18 witness: a failure text of 102 characters was written to the text
\* report as 100 characters and the marker.
C18_Witness ==
  /\ apc = "done"
  /\ Len(parsed) = 1 /\ Len(parsed[1].testcases) = 1
  /\ parsed[1].testcases[1].status = "failed"
  /\ parsed[1].testcases[1].text = 102
  /\ Len(savedText.details) = 1
  /\ Len(savedText.details[1].line) = 103
  /\ savedText.details[1].line[100] = 100
  /\ savedText.details[1].line[101] = 0

\* C19: generate_summary_report and generate_html_report leave the results
\* mapping unchanged: after rendering, every suite record and case record is
\* as parse_junit_xml returned it.
C19_RenderingLeavesResultsUnchanged ==
  apc \in {"summarized", "raised", "done"} => results = parsed

\* quick_check has returned.
QuickDone == apc \in {"quick", "quickdone"}

\* File i can be read and its suite element shows no failure and no error.
ShowsAllPassing(i) ==
  /\ files[i].wellformed
  /\ \A a \in {"tests", "failures", "errors", "time"} : SuiteOf(i)[a].k # "garbage"
  /\ SuiteOf(i).failures.v = 0
  /\ SuiteOf(i).errors.v = 0

\* C20: quick_check returns 0 only when at least one result file was found and
\* every file found was read and shows zero failures and zero errors; it
\* returns 1 when some tests are failing or no result file is found.
C20_ExitZeroOnlyIfAllPassing ==
  QuickDone =>
    /\ quickExit \in {0, 1}
    /\ (quickExit = 0 =>
          files # <<>> /\ \A i \in 1..Len(files) : ShowsAllPassing(i))

\* The count an attribute stands for: 0 when it is absent.
CountOf(a) == IF a.k = "int" THEN a.v ELSE 0

\* Every file is well-formed and none of its attributes, of the root or of a
\* nested suite, is rejected by int() / float().
AllReadable ==
  \A i \in 1..Len(files) :
    /\ files[i].wellformed
    /\ NoGarbage(i)
    /\ \A a \in SuiteFields : files[i].root[a].k # "garbage"

\* The sum of a count over the suite elements of the first n files.
RECURSIVE SuiteSum(_, _)
SuiteSum(field, n) ==
  IF n = 0 THEN 0 ELSE SuiteSum(field, n - 1) + CountOf(SuiteOf(n)[field])

\* C21: parse_junit_xml and quick_check both take the suite counts from the
\* nested testsuite element when the document has one and from the root only
\* when it has none, whether or not the suite contains a testcase.
C21_BothReadersUseNestedSuite ==
  AllReadable =>
    /\ Loaded =>
         \A i \in 1..Len(files) :
           \A a \in {"tests", "failures", "errors"} :
             parsed[i][a] = CountOf(SuiteOf(i)[a])
    /\ quick.ran =>
         /\ quick.total_tests = SuiteSum("tests", Len(files))
         /\ quick.total_failures = SuiteSum("failures", Len(files))
         /\ quick.total_errors = SuiteSum("errors", Len(files))

\* C26: every suite record parse_junit_xml returns for a file it accepts has
\* tests >= failures + errors + skipped >= 0.
C26_ParsedCountsConsistent ==
  Loaded =>
    \A i \in 1..Len(parsed) :
      ParsedOk(i) =>
        /\ parsed[i].failures + parsed[i].errors + parsed[i].skipped >= 0
        /\ parsed[i].tests >= parsed[i].failures + parsed[i].errors + parsed[i].skipped

\* C28: both renderers return a report for every case record parse_junit_xml
\* produces, also for a non-passing case whose failure or error element has
\* no text (with at least one test in total, so that no rate is 0 / 0).
C28_RenderingWithoutMessage ==
  (apc \in {"summarized", "raised", "done"} /\ ParsedSum("tests", Len(parsed)) > 0) =>
    /\ summary.state = "ok"
    /\ Ended => (apc = "done" /\ savedText.state = "ok" /\ savedHtml.state = "ok")

\* C29: quick_check and the analyzer report the same pass count and the same
\* success rate for the same result files, also when tests were skipped
\* (stated for readable files whose root is the suite, with at least one test,
\* where both tools print a pass count and a rate).
C29_QuickAndAnalyzerAgree ==
  (/\ quick.ran /\ quick.rate_shown
   /\ summary.state = "ok" /\ summary.has_rate
   /\ AllReadable /\ \A i \in 1..Len(files) : ~files[i].wrapped) =>
    /\ quick.passed = summary.shown_passed
    /\ quick.rate = summary.rate

\* ---------------------------------------- claims on the container lifecycle

\* A step of the polling loop leaves it only by returning from
\* start_test_container; the container is not created or waited for again.
PollStep ==
  pc = "health_poll" =>
    /\ pc' \in {"health_poll", "after_start"}
    /\ (pc' = "health_poll" => attempt' = attempt + 1)
    /\ (pc' = "after_start" /\ ~sawReady' => ~startResult')
    /\ (attempt = 30 => pc' = "after_start" /\ ~startResult')
    /\ calls' = calls
    /\ test_container' = test_container /\ named' = named

\* C22: the readiness wait terminates: start_test_container makes at most 30
\* health requests and returns failure when none of them satisfied readiness;
\* it does not start the container again or poll a second round.
C22_ReadinessWaitBounded ==
  /\ [](pc = "health_poll" => attempt <= 30)
  /\ [][PollStep]_vars
  /\ (pc = "health_poll" ~> pc = "after_start")

\* C22 witness: 30 health requests were made and none satisfied readiness.
C22_Witness ==
  /\ pc = "health_poll"
  /\ attempt = 30
  /\ ~sawReady

\* A step of start_test_container after containers.run: polling begins only
\* on observing status running within the budget; with the budget used up the
\* call returns False; the container is not created again.
WaitStep ==
  /\ (pc' = "health_poll" /\ pc # "health_poll") =>
       (pc = "wait_running" /\ waited < 30 /\ cstatus' = "running")
  /\ pc = "wait_running" =>
       /\ pc' \in {"wait_running", "health_poll", "after_start"}
       /\ (waited >= 30 => pc' = "after_start" /\ ~startResult')
       /\ (pc' = "after_start" => ~startResult')
       /\ calls' = calls
       /\ test_container' = test_container /\ named' = named

\* C23: no health request is sent before the container was observed running;
\* when it is not observed running within the 30 seconds, start_test_container
\* returns failure without polling health and without creating the container
\* again.
C23_NoPollBeforeRunning ==
  /\ [](pc = "health_poll" => cstatus = "running")
  /\ [][WaitStep]_vars

\* C23 witness: the container was never seen running and the 30 seconds are
\* used up.
C23_Witness ==
  /\ pc = "wait_running"
  /\ waited = 30
  /\ cstatus # "running"

\* ------------------------------------------------ claims on the results map

\* A step changes the status of a category only away from not_run, and then to
\* passed, failed or error.
StatusStep ==
  \A c \in Categories :
    /\ test_results[c].status # "not_run" =>
         test_results'[c].status = test_results[c].status
    /\ test_results'[c].status \in {"not_run", "passed", "failed", "error"}

\* C25: within one process the status of each category changes at most once,
\* from not_run to one of passed, failed, error, and never again; no category
\* entry is removed from the results map.
C25_StatusWrittenOnce ==
  /\ [](DOMAIN test_results = Categories)
  /\ [](\A c \in Categories :
          test_results[c].status \in {"not_run", "passed", "failed", "error"})
  /\ [][StatusStep]_vars

\* C25 witness: a run of all suites has ended with three different statuses
\* recorded.
C25_Witness ==
  /\ pc = "exited"
  /\ mode = "all"
  /\ test_results["unit"].status = "error"
  /\ test_results["integration"].status = "passed"
  /\ test_results["api"].status = "failed"
  /\ test_results["docker"].status = "passed"

\* C27: for every run that prints a report, the Overall Status line says
\* PASSED exactly when the process exits with code 0, also when setup failed
\* and no suite was executed (stated for the runs that end without an
\* interrupt or an unexpected exception).
C27_ReportAgreesWithExitCode ==
  (pc = "exited" /\ report # "" /\ ~interrupted /\ ~crashed) =>
    (report = "PASSED" <=> exitCode = 0)

\* C30: a run with a single mode executes only the suite of that category: the
\* entries of the other three categories keep their initial values.
C30_SingleModeRunsOneSuite ==
  mode # "all" =>
    /\ \A c \in Categories \ {mode} : test_results[c] = InitResult
    /\ \A i \in 1..Len(runLog) : runLog[i] = mode
    /\ Len(runLog) <= 1

\* C30 witness: a run in mode api has ended with the api suite failed and the
\* three other entries untouched.
C30_Witness ==
  /\ pc = "exited"
  /\ mode = "api"
  /\ runLog = <<"api">>
  /\ test_results["api"].status = "failed"
  /\ test_results["api"].duration > 0
  /\ \A c \in {"unit", "integration", "docker"} : test_results[c] = InitResult

\* ------------------------------------------------------ claims on teardown

\* cleanup_resources has returned to the finally clause after doing its work.
TeardownReturned == pc = "exit" /\ cleanup

\* C24: a failure of a teardown step (stopping the container, removing it,
\* removing the image, teardown without a Docker client) is swallowed:
\* cleanup_resources returns, the teardown steps after the failed one are still
\* attempted (a container whose stop was attempted also has its removal
\* attempted, the lookup by name and the image removal are made), and the exit
\* code is the one the test outcome decided.
C24_TeardownFailureSwallowed ==
  /\ TeardownReturned =>
       /\ "named_get" \in tried
       /\ "image_get" \in tried
       /\ ("own_stop" \in tried => "own_remove" \in tried)
       /\ ("named_stop" \in tried => "named_remove" \in tried)
  /\ (pc = "exited" /\ ~interrupted) => exitCode = pendingExit

====
